---- MODULE Spec2Model ----
(***************************************************************************)
(* Model of lvs_monitor.cpp: the single-loop LVS health monitor.  Each     *)
(* pass of the while(true) loop pings every backend in turn, records the   *)
(* loss sample in the backend's sliding window, averages the window and,   *)
(* on a threshold crossing, adds the backend to or removes it from every   *)
(* configured LVS service by running ipvsadm commands.                     *)
(***************************************************************************)
EXTENDS Integers, Sequences, FiniteSets, TLC

\* ---------------- CONFIG ----------------
BACKEND_SERVERS == <<"10.1.1.2", "10.1.1.3">>

\* A raw port entry is <<p>> for a single port "p" and <<a, b>> for a
\* range "a-b"; the lists are a cut of the configured ones.
TCP_SERVICES == << <<55665>> >>
UDP_SERVICES == << <<55665>> >>

LOSS_THRESHOLD == 5

\* Bounds of the model.
MaxWindow == 2
MaxFaults == 1
MaxFed == 5
MaxPasses == 3

WINDOW_SECONDS == MaxWindow

\* Values ping_server is taken to return: one on each side of the
\* threshold comparison.
Samples == {LOSS_THRESHOLD - 1, LOSS_THRESHOLD}

\* if (elapsed < 1000) this_thread::sleep_for(milliseconds(1000 - elapsed));
TICK_MS == 1000

\* Milliseconds the for body is taken to need for one backend, the probe
\* (up to PING_TIMEOUT) included.
BodyTimes == {400, 600}

\* Values fed to the window harness.
WinSamples == Samples \cup {0, 7, 100}

Servers == {BACKEND_SERVERS[i] : i \in 1..Len(BACKEND_SERVERS)}

VARIABLES
  loss_history,      \* map<string, deque<int>>
  server_status,     \* map<string, string>
  created_services,  \* set<string>, keys <<proto, port>> for "proto:port"
  lvs,               \* the IPVS table: [svc: services, rs: real servers]
  pc,                \* position of main: "ping", "record" or "sleep"
  idx,               \* index of `server` in the for loop over BACKEND_SERVERS
  loss,              \* the local `loss` between ping_server and its use
  avg,               \* the local `avg` of the latest cycle of each server
  calls,             \* commands run by the latest cycle, in order
  faults,            \* number of commands that failed for external reasons
  issued,            \* per server, the kinds of command ever run for it
  below,             \* per server, whether some cycle had avg < LOSS_THRESHOLD
  fed,               \* samples given to the window harness, in order
  sampled,           \* per server, the values ping_server returned for it
  elapsed,           \* milliseconds since loop_start
  slept,             \* milliseconds the latest pass slept, -1 before any
  work,              \* per server, milliseconds its latest cycle took
  last_batch,        \* per server, the latest reconciliation run for it
  creates,           \* per service, the create commands ever run for it
  reply              \* what popen and the pipe gave the ping_server call under study

vars == <<loss_history, server_status, created_services, lvs, pc, idx, loss,
          avg, calls, faults, issued, below, fed, sampled, elapsed, slept,
          work, last_batch, creates, reply>>

\* What Spec leaves alone: it abstracts from time.
timing == <<sampled, elapsed, slept, work>>

\* ---------------------------------------------------------
\* EXPAND PORT RANGES
RECURSIVE Range(_, _)
Range(start, end) ==
  IF start <= end THEN <<start>> \o Range(start + 1, end) ELSE <<>>

RECURSIVE expand_ports(_)
expand_ports(ports_raw) ==
  IF ports_raw = <<>> THEN <<>>
  ELSE LET p == Head(ports_raw)
       IN (IF Len(p) = 2 THEN Range(p[1], p[2]) ELSE <<p[1]>>)
          \o expand_ports(Tail(ports_raw))

\* Every configured (protocol, port) service.
Pairs ==
  {<<"TCP", expand_ports(TCP_SERVICES)[i]>> : i \in 1..Len(expand_ports(TCP_SERVICES))}
  \cup
  {<<"UDP", expand_ports(UDP_SERVICES)[i]>> : i \in 1..Len(expand_ports(UDP_SERVICES))}

\* ---------------------------------------------------------
RECURSIVE Sum(_)
Sum(h) == IF h = <<>> THEN 0 ELSE Head(h) + Sum(Tail(h))

\* Variant: the average of the window as it was before the newest sample.
average_loss_stale(h) ==
  IF Len(h) <= 1 THEN 0 ELSE Sum(SubSeq(h, 1, Len(h) - 1)) \div (Len(h) - 1)

average_loss(h) ==
  IF h = <<>> THEN 0 ELSE Sum(h) \div Len(h)

\* Variant: the newest sample is the one evicted.
record_pop_back(h, x) ==
  LET pushed == Append(h, x)
  IN IF Len(pushed) > WINDOW_SECONDS THEN SubSeq(pushed, 1, Len(pushed) - 1) ELSE pushed

\* Variant: nothing is ever evicted.
record_no_evict(h, x) == Append(h, x)

\* Variant: a full window refuses the new sample.
record_drop_when_full(h, x) ==
  IF Len(h) >= WINDOW_SECONDS THEN h ELSE Append(h, x)

\* h.push_back(loss); if (h.size() > WINDOW_SECONDS) h.pop_front();
record(h, x) ==
  LET pushed == Append(h, x)
  IN IF Len(pushed) > WINDOW_SECONDS THEN Tail(pushed) ELSE pushed

\* ---------------------------------------------------------
\* The ipvsadm commands the program runs with system().  F is the set of
\* commands <<kind, proto, port>> of the current cycle that fail for a
\* reason outside the table (ipvsadm missing, no privilege, ...); a failed
\* command leaves the table as it was.

\* "^proto VIP:port" is not anchored at its end: it matches every listed
\* service of the protocol whose port starts with the digits of `port`.
DigitsPrefix(p, q) == \E k \in 0..5 : q \div (10 ^ k) = p

\* ipvsadm -Ln | grep -q "^proto VIP:port"   (exit status 0)
service_listed(table, proto, port, F) ==
  /\ <<"check", proto, port>> \notin F
  /\ \E s \in table.svc : s[1] = proto /\ DigitsPrefix(port, s[2])

\* ipvsadm -A -t|-u VIP:port -s rr
ipvsadm_A(table, proto, port, F) ==
  IF <<"create", proto, port>> \in F \/ <<proto, port>> \in table.svc
  THEN [table |-> table, ok |-> FALSE]
  ELSE [table |-> [table EXCEPT !.svc = @ \cup {<<proto, port>>}], ok |-> TRUE]

\* ipvsadm -a -t|-u VIP:port -r ip:port -m
ipvsadm_a(table, proto, port, ip, F) ==
  IF \/ <<"add", proto, port>> \in F
     \/ <<proto, port>> \notin table.svc
     \/ <<proto, port, ip>> \in table.rs
  THEN [table |-> table, ok |-> FALSE]
  ELSE [table |-> [table EXCEPT !.rs = @ \cup {<<proto, port, ip>>}], ok |-> TRUE]

\* ipvsadm -d -t|-u VIP:port -r ip:port
ipvsadm_d(table, proto, port, ip, F) ==
  IF \/ <<"remove", proto, port>> \in F
     \/ <<proto, port, ip>> \notin table.rs
  THEN [table |-> table, ok |-> FALSE]
  ELSE [table |-> [table EXCEPT !.rs = @ \ {<<proto, port, ip>>}], ok |-> TRUE]

Call(op, proto, port, ip, ok) ==
  [op |-> op, proto |-> proto, port |-> port, ip |-> ip, ok |-> ok]

Proto(type) == IF type = "t" THEN "TCP" ELSE "UDP"

\* ---------------------------------------------------------
\* st = [lvs, created, calls]: the table, created_services and the commands
\* run so far in this cycle.  The "ensure" entry marks the return of
\* create_service_if_needed.
\* Variant: the key is not recorded after the create command.
create_service_no_insert(type, port, st, F) ==
  LET proto == Proto(type)
      key == <<proto, port>>
      done(s) == [s EXCEPT !.calls = Append(@, Call("ensure", proto, port, "-", TRUE))]
  IN IF key \in st.created THEN done(st)
     ELSE LET found == service_listed(st.lvs, proto, port, F)
              st1 == [st EXCEPT !.calls = Append(@, Call("check", proto, port, "-", found))]
          IN IF ~found
             THEN LET r == ipvsadm_A(st1.lvs, proto, port, F)
                  IN done([lvs |-> r.table,
                           created |-> st1.created,
                           calls |-> Append(st1.calls, Call("create", proto, port, "-", r.ok))])
             ELSE done(st1)

\* Variant: neither created_services nor the table is consulted.
create_service_always(type, port, st, F) ==
  LET proto == Proto(type)
      r == ipvsadm_A(st.lvs, proto, port, F)
  IN [lvs |-> r.table,
      created |-> st.created \cup {<<proto, port>>},
      calls |-> st.calls \o <<Call("create", proto, port, "-", r.ok),
                               Call("ensure", proto, port, "-", TRUE)>>]

create_service_if_needed(type, port, st, F) ==
  LET proto == Proto(type)
      key == <<proto, port>>
      done(s) == [s EXCEPT !.calls = Append(@, Call("ensure", proto, port, "-", TRUE))]
  IN IF key \in st.created THEN done(st)
     ELSE LET found == service_listed(st.lvs, proto, port, F)
              st1 == [st EXCEPT !.calls = Append(@, Call("check", proto, port, "-", found))]
          IN IF ~found
             THEN LET r == ipvsadm_A(st1.lvs, proto, port, F)
                  IN done([lvs |-> r.table,
                           created |-> st1.created \cup {key},
                           calls |-> Append(st1.calls, Call("create", proto, port, "-", r.ok))])
             ELSE done(st1)

\* Variant: the real server is added before the service is ensured.
add_one_add_first(type, port, ip, st, F) ==
  LET r == ipvsadm_a(st.lvs, Proto(type), port, ip, F)
      st1 == [st EXCEPT !.lvs = r.table,
                        !.calls = Append(@, Call("add", Proto(type), port, ip, r.ok))]
  IN create_service_if_needed(type, port, st1, F)

\* One pass of a for loop of add_server_to_lvs.
add_one(type, port, ip, st, F) ==
  LET st1 == create_service_if_needed(type, port, st, F)
      r == ipvsadm_a(st1.lvs, Proto(type), port, ip, F)
  IN [st1 EXCEPT !.lvs = r.table,
                 !.calls = Append(@, Call("add", Proto(type), port, ip, r.ok))]

RECURSIVE add_loop(_, _, _, _, _)
add_loop(type, ports, ip, st, F) ==
  IF ports = <<>> THEN st
  ELSE add_loop(type, Tail(ports), ip, add_one(type, Head(ports), ip, st, F), F)

add_server_to_lvs(ip, st, F) ==
  LET tcp_ports == expand_ports(TCP_SERVICES)
      udp_ports == expand_ports(UDP_SERVICES)
  IN add_loop("u", udp_ports, ip, add_loop("t", tcp_ports, ip, st, F), F)

\* One pass of a for loop of remove_server_from_lvs.
remove_one(type, port, ip, st, F) ==
  LET r == ipvsadm_d(st.lvs, Proto(type), port, ip, F)
  IN [st EXCEPT !.lvs = r.table,
                !.calls = Append(@, Call("remove", Proto(type), port, ip, r.ok))]

RECURSIVE remove_loop(_, _, _, _, _)
remove_loop(type, ports, ip, st, F) ==
  IF ports = <<>> THEN st
  ELSE remove_loop(type, Tail(ports), ip, remove_one(type, Head(ports), ip, st, F), F)

\* Variant: the commands stop at the first one that fails.
remove_server_abort(ip, st, F) ==
  LET st1 == remove_loop("t", expand_ports(TCP_SERVICES), ip, st, F)
  IN IF \E i \in 1..Len(st1.calls) : ~st1.calls[i].ok
     THEN st1
     ELSE remove_loop("u", expand_ports(UDP_SERVICES), ip, st1, F)

\* Variant: the UDP loop is left out.
remove_server_tcp_only(ip, st, F) ==
  remove_loop("t", expand_ports(TCP_SERVICES), ip, st, F)

remove_server_from_lvs(ip, st, F) ==
  LET tcp_ports == expand_ports(TCP_SERVICES)
      udp_ports == expand_ports(UDP_SERVICES)
  IN remove_loop("u", udp_ports, ip, remove_loop("t", tcp_ports, ip, st, F), F)

\* ---------------------------------------------------------
\* Variant: the threshold itself still counts as healthy.
decide_strict(a, status) ==
  IF a > LOSS_THRESHOLD /\ status # "DOWN" THEN "remove"
  ELSE IF a <= LOSS_THRESHOLD /\ status # "UP" THEN "add"
  ELSE "none"

\* Variant: the current status is not consulted.
decide_stateless(a, status) ==
  IF a >= LOSS_THRESHOLD THEN "remove" ELSE "add"

\* Variant: a backend is added on its first cycle whatever its average.
decide_bootstrap(a, status) ==
  IF status = "UNKNOWN" THEN "add"
  ELSE IF a >= LOSS_THRESHOLD /\ status # "DOWN" THEN "remove"
  ELSE IF a < LOSS_THRESHOLD /\ status # "UP" THEN "add"
  ELSE "none"

\* Variant: a healthy average adds the backend whatever its status.
decide_readd(a, status) ==
  IF a >= LOSS_THRESHOLD /\ status # "DOWN" THEN "remove"
  ELSE IF a < LOSS_THRESHOLD THEN "add"
  ELSE "none"

\* The branch main takes for an average and a current status.
decide(a, status) ==
  IF a >= LOSS_THRESHOLD /\ status # "DOWN" THEN "remove"
  ELSE IF a < LOSS_THRESHOLD /\ status # "UP" THEN "add"
  ELSE "none"

\* Variant: a cycle without a crossing forgets the status.
apply_branch_forget(d, server, status, st, F) ==
  CASE d = "remove" -> [st |-> remove_server_from_lvs(server, st, F), status |-> "DOWN"]
    [] d = "add"    -> [st |-> add_server_to_lvs(server, st, F), status |-> "UP"]
    [] OTHER        -> [st |-> st, status |-> "UNKNOWN"]

\* Variant: the new status is stored only when every command succeeded.
apply_branch_on_success(d, server, status, st, F) ==
  LET out == CASE d = "remove" -> [st |-> remove_server_from_lvs(server, st, F), status |-> "DOWN"]
               [] d = "add"    -> [st |-> add_server_to_lvs(server, st, F), status |-> "UP"]
               [] OTHER        -> [st |-> st, status |-> status]
  IN IF \E i \in 1..Len(out.st.calls) : ~out.st.calls[i].ok /\ out.st.calls[i].op # "check"
     THEN [out EXCEPT !.status = status]
     ELSE out

\* The body of the branch: the reconciliation and the status it stores.
apply_branch(d, server, status, st, F) ==
  CASE d = "remove" -> [st |-> remove_server_from_lvs(server, st, F), status |-> "DOWN"]
    [] d = "add"    -> [st |-> add_server_to_lvs(server, st, F), status |-> "UP"]
    [] OTHER        -> [st |-> st, status |-> status]

\* ---------------------------------------------------------
\* The commands of a branch that may fail for an external reason.
Slots(d) ==
  CASE d = "remove" -> {<<"remove", p[1], p[2]>> : p \in Pairs}
    [] d = "add"    -> {<<k, p[1], p[2]>> : k \in {"check", "create", "add"}, p \in Pairs}
    [] OTHER        -> {}

RECURSIVE UpTo(_, _)
UpTo(S, n) ==
  IF n <= 0 THEN {{}}
  ELSE UpTo(S, n - 1) \cup {T \cup {x} : T \in UpTo(S, n - 1), x \in S}

FaultChoices(d) == UpTo(Slots(d), MaxFaults - faults)

\* The IPVS table the monitor may find at start: nothing, or services (and
\* the first backend as their real server) left by an earlier run.
TcpPairs == {p \in Pairs : p[1] = "TCP"}

InitTables ==
  UNION {{[svc |-> S, rs |-> {}],
          [svc |-> S, rs |-> {<<p[1], p[2], BACKEND_SERVERS[1]>> : p \in S}]} :
         S \in {{}, TcpPairs, Pairs}}

\* The state after construction, the table and the probe's reply aside.
InitRest ==
  /\ loss_history = [s \in Servers |-> <<>>]
  /\ server_status = [s \in Servers |-> "UNKNOWN"]
  /\ created_services = {}
  /\ pc = "ping"
  /\ idx = 1
  /\ loss = -1
  /\ avg = [s \in Servers |-> 0]
  /\ calls = <<>>
  /\ faults = 0
  /\ issued = [s \in Servers |-> {}]
  /\ below = [s \in Servers |-> FALSE]
  /\ fed = <<>>
  /\ sampled = [s \in Servers |-> <<>>]
  /\ elapsed = 0
  /\ slept = -1
  /\ work = [s \in Servers |-> 0]
  /\ last_batch = [s \in Servers |-> "none"]
  /\ creates = [p \in Pairs |-> 0]

\* No probe is under study.
NoReply == [pipe |-> TRUE, output |-> <<>>]

Init ==
  /\ InitRest
  /\ lvs \in InitTables
  /\ reply = NoReply

\* Variant: the body works on the backend after the one that was pinged.
server_at_next(i) == BACKEND_SERVERS[(i % Len(BACKEND_SERVERS)) + 1]

\* Variant: the body always works on the first backend.
server_at_first(i) == BACKEND_SERVERS[1]

\* for (const auto& server : BACKEND_SERVERS)
server_at(i) == BACKEND_SERVERS[i]

\* int loss = ping_server(server);
Probe ==
  /\ pc = "ping"
  /\ \E x \in Samples : loss' = x
  /\ pc' = "record"
  /\ calls' = <<>>
  /\ UNCHANGED <<loss_history, server_status, created_services, lvs, idx, avg,
                 faults, issued, below, fed, last_batch, creates, reply>>

Ping == Probe /\ UNCHANGED timing

\* The rest of the for body: record the sample, average the window, and
\* on a crossing reconcile the table and store the new status.  With
\* `failing`, commands may fail for external reasons.
Cycle(failing) ==
  /\ pc = "record"
  /\ LET server == server_at(idx)
         h == record(loss_history[server], loss)
         a == average_loss(h)
         d == decide(a, server_status[server])
     IN \E F \in (IF failing THEN FaultChoices(d) ELSE {{}}) :
          LET st0 == [lvs |-> lvs, created |-> created_services, calls |-> <<>>]
              out == apply_branch(d, server, server_status[server], st0, F)
              ran == {out.st.calls[i].op : i \in 1..Len(out.st.calls)} \ {"ensure"}
          IN /\ loss_history' = [loss_history EXCEPT ![server] = h]
             /\ avg' = [avg EXCEPT ![server] = a]
             /\ server_status' = [server_status EXCEPT ![server] = out.status]
             /\ lvs' = out.st.lvs
             /\ created_services' = out.st.created
             /\ calls' = out.st.calls
             /\ faults' = faults + Cardinality(F)
             /\ issued' = [issued EXCEPT ![server] = @ \cup ran]
             /\ below' = [below EXCEPT ![server] = @ \/ a < LOSS_THRESHOLD]
             /\ last_batch' = [last_batch EXCEPT ![server] =
                                 IF d = "none" THEN @ ELSE d]
             /\ creates' = [p \in Pairs |-> creates[p] + Cardinality(
                    {i \in 1..Len(out.st.calls) :
                       /\ out.st.calls[i].op = "create"
                       /\ <<out.st.calls[i].proto, out.st.calls[i].port>> = p})]
  /\ loss' = -1
  /\ IF idx < Len(BACKEND_SERVERS)
     THEN idx' = idx + 1 /\ pc' = "ping"
     ELSE idx' = idx /\ pc' = "sleep"
  /\ UNCHANGED <<fed, reply>>

Evaluate == Cycle(TRUE) /\ UNCHANGED timing

\* The end of a pass: back to the top of while (true).
EndPass ==
  /\ pc = "sleep"
  /\ pc' = "ping"
  /\ idx' = 1
  /\ UNCHANGED <<loss_history, server_status, created_services, lvs, loss, avg,
                 calls, faults, issued, below, fed, last_batch, creates, reply>>

Sleep == EndPass /\ UNCHANGED timing

Next == Ping \/ Evaluate \/ Sleep

Spec == Init /\ [][Next]_vars

\* ---------------------------------------------------------
\* The first MaxPasses passes with the clock: the values ping_server
\* returned are kept per backend, the for body takes time, and commands
\* fail only when the table rejects them.

\* Variant: every pass sleeps the whole interval.
sleep_ms_fixed(e) == TICK_MS

\* auto elapsed = ...; if (elapsed < 1000) sleep_for(1000 - elapsed);
\* 0 stands for no sleep.
sleep_ms(e) == IF e < TICK_MS THEN TICK_MS - e ELSE 0

PingRun ==
  /\ Probe
  /\ Len(sampled[BACKEND_SERVERS[idx]]) < MaxPasses
  /\ sampled' = [sampled EXCEPT ![BACKEND_SERVERS[idx]] = Append(@, loss')]
  /\ \E d \in BodyTimes :
       /\ elapsed' = elapsed + d
       /\ work' = [work EXCEPT ![BACKEND_SERVERS[idx]] = d]
  /\ UNCHANGED slept

EvaluateRun == Cycle(FALSE) /\ UNCHANGED timing

\* loop_end, the sleep, and loop_start of the next pass.
SleepRun ==
  /\ EndPass
  /\ slept' = sleep_ms(elapsed)
  /\ elapsed' = 0
  /\ UNCHANGED <<sampled, work>>

NextRun == PingRun \/ EvaluateRun \/ SleepRun

SpecRun == Init /\ [][NextRun]_vars

\* ---------------------------------------------------------
\* ping_server.  The text read from the pipe is a sequence of characters
\* of OutChars: three digits, ".", "%", " " for a white-space character,
\* "L" for the words "packet loss" and "x" for any other character.
Digits == {"0", "1", "9"}

OutChars == Digits \cup {".", "%", " ", "L", "x"}

\* The longest output considered.
MaxOut == 5

Outputs == UNION {[1..n -> OutChars] : n \in 0..MaxOut}

\* popen failed, or the pipe was read to its end.
Replies ==
  {[pipe |-> FALSE, output |-> <<>>]} \cup {[pipe |-> TRUE, output |-> o] : o \in Outputs}

DigitVal(c) == CASE c = "0" -> 0 [] c = "1" -> 1 [] c = "9" -> 9

\* The index after the longest run of characters of S that starts at i.
RECURSIVE RunEnd(_, _, _)
RunEnd(o, i, S) ==
  IF i <= Len(o) /\ o[i] \in S THEN RunEnd(o, i + 1, S) ELSE i

\* %\s*packet loss   at index k
TailAt(o, k) ==
  /\ k <= Len(o)
  /\ o[k] = "%"
  /\ LET m == RunEnd(o, k + 1, {" "})
     IN m <= Len(o) /\ o[m] = "L"

NoMatch == [ok |-> FALSE, text |-> <<>>]

\* (\d+(\.\d+)?)%\s*packet loss   matched from index i; text is match[1].
\* Both \d+ are greedy, and the group (\.\d+)? is tried before its absence.
MatchAt(o, i) ==
  IF i > Len(o) \/ o[i] \notin Digits THEN NoMatch
  ELSE LET b == RunEnd(o, i, Digits)
           frac == b + 1 <= Len(o) /\ o[b] = "." /\ o[b + 1] \in Digits
           c == IF frac THEN RunEnd(o, b + 1, Digits) ELSE b
       IN IF frac /\ TailAt(o, c) THEN [ok |-> TRUE, text |-> SubSeq(o, i, c - 1)]
          ELSE IF TailAt(o, b) THEN [ok |-> TRUE, text |-> SubSeq(o, i, b - 1)]
          ELSE NoMatch

\* std::regex_search: the match at the leftmost index that has one.
RECURSIVE regex_search(_, _)
regex_search(o, i) ==
  IF i > Len(o) THEN NoMatch
  ELSE LET m == MatchAt(o, i)
       IN IF m.ok THEN m ELSE regex_search(o, i + 1)

\* The digits of a text as a number, "." skipped.
RECURSIVE Number(_)
Number(t) ==
  IF t = <<>> THEN 0
  ELSE LET front == SubSeq(t, 1, Len(t) - 1)
           c == t[Len(t)]
       IN IF c = "." THEN Number(front) ELSE 10 * Number(front) + DigitVal(c)

\* The number of digits after the ".", 0 without one.
RECURSIVE Decimals(_)
Decimals(t) ==
  IF t = <<>> THEN 0
  ELSE IF \A j \in 1..Len(t) : t[j] # "." THEN 0
  ELSE IF t[Len(t)] = "." THEN 0
  ELSE 1 + Decimals(SubSeq(t, 1, Len(t) - 1))

\* ss >> loss; static_cast<int>(loss): the value of the text, cut to an int.
to_int(t) == Number(t) \div (10 ^ Decimals(t))

\* Variant: an output without a figure counts as no loss.
ping_server_zero(r) ==
  IF ~r.pipe THEN 100
  ELSE LET m == regex_search(r.output, 1)
       IN IF m.ok THEN to_int(m.text) ELSE 0

ping_server(r) ==
  IF ~r.pipe THEN 100
  ELSE LET m == regex_search(r.output, 1)
       IN IF m.ok THEN to_int(m.text) ELSE 100

\* One call of ping_server on each reply.
InitPing ==
  /\ InitRest
  /\ lvs = [svc |-> {}, rs |-> {}]
  /\ reply \in Replies

\* int loss = ping_server(server);
PingReply ==
  /\ pc = "ping"
  /\ loss' = ping_server(reply)
  /\ pc' = "record"
  /\ calls' = <<>>
  /\ UNCHANGED <<loss_history, server_status, created_services, lvs, idx, avg,
                 faults, issued, below, fed, last_batch, creates, reply>>
  /\ UNCHANGED timing

NextPing == PingReply

SpecPing == InitPing /\ [][NextPing]_vars

\* ---------------------------------------------------------
\* The window alone: samples are fed to the history of the first backend
\* as the for body records and averages them.
Feed ==
  /\ Len(fed) < MaxFed
  /\ \E x \in WinSamples :
       LET server == BACKEND_SERVERS[1]
           h == record(loss_history[server], x)
       IN /\ loss_history' = [loss_history EXCEPT ![server] = h]
          /\ avg' = [avg EXCEPT ![server] = average_loss(h)]
          /\ fed' = Append(fed, x)
  /\ UNCHANGED <<server_status, created_services, lvs, pc, idx, loss, calls,
                 faults, issued, below, last_batch, creates, reply>>
  /\ UNCHANGED timing

NextWin == Feed

SpecWin == Init /\ [][NextWin]_vars

TypeOK ==
  /\ \A s \in Servers : Len(loss_history[s]) <= WINDOW_SECONDS
  /\ \A s \in Servers : server_status[s] \in {"UNKNOWN", "UP", "DOWN"}
  /\ created_services \subseteq Pairs
  /\ faults \in 0..MaxFaults

\* ---------------------------------------------------------
\* Properties.

Registered(s, p) == p \in lvs.svc /\ <<p[1], p[2], s>> \in lvs.rs

Cycled(s) == Len(loss_history[s]) > 0

\* C1: while no command has failed for an external reason, a backend that
\* has completed a cycle is a real server of every configured service if
\* its status is UP and of none of them if its status is DOWN.
C1_MembershipFollowsStatus ==
  faults = 0 =>
    \A s \in Servers :
      Cycled(s) =>
        /\ (server_status[s] = "UP") <=> (\A p \in Pairs : Registered(s, p))
        /\ (server_status[s] = "DOWN") => (\A p \in Pairs : <<p[1], p[2], s>> \notin lvs.rs)

\* A backend that was added and later removed is DOWN and on no service
\* while the other one is UP and registered on all of them.
C1_Witness ==
  /\ faults = 0
  /\ server_status[BACKEND_SERVERS[1]] = "DOWN"
  /\ {"add", "remove"} \subseteq issued[BACKEND_SERVERS[1]]
  /\ \A p \in Pairs : <<p[1], p[2], BACKEND_SERVERS[1]>> \notin lvs.rs
  /\ server_status[BACKEND_SERVERS[2]] = "UP"
  /\ \A p \in Pairs : Registered(BACKEND_SERVERS[2], p)
  /\ created_services # {}

\* C2: every cycle stores DOWN when the average is at or above the threshold
\* and the status is not DOWN, UP when it is below and the status is not UP,
\* and keeps the status otherwise; so after a cycle the status is DOWN
\* exactly when the cycle's average is at or above LOSS_THRESHOLD.
C2_StatusAfterCycle ==
  \A s \in Servers :
    Cycled(s) =>
      /\ (server_status[s] = "DOWN") <=> (avg[s] >= LOSS_THRESHOLD)
      /\ (server_status[s] = "UP") <=> (avg[s] < LOSS_THRESHOLD)

C2_Step ==
  pc = "record" =>
    LET s == BACKEND_SERVERS[idx]
    IN server_status'[s] =
         (IF avg'[s] >= LOSS_THRESHOLD /\ server_status[s] # "DOWN" THEN "DOWN"
          ELSE IF avg'[s] < LOSS_THRESHOLD /\ server_status[s] # "UP" THEN "UP"
          ELSE server_status[s])

C2_TransitionPolicy == [](C2_StatusAfterCycle) /\ [][C2_Step]_vars

\* One backend sits exactly on the threshold and is DOWN, the other one
\* just under it and is UP.
C2_Witness ==
  \E s, t \in Servers :
    /\ avg[s] = LOSS_THRESHOLD /\ server_status[s] = "DOWN"
    /\ avg[t] = LOSS_THRESHOLD - 1 /\ server_status[t] = "UP"
    /\ Len(loss_history[t]) = WINDOW_SECONDS
    /\ loss_history[t][WINDOW_SECONDS] = LOSS_THRESHOLD

\* C3: the history holds the last min(count, WINDOW_SECONDS) samples fed,
\* in arrival order, and the average is the truncated mean of them (0 for
\* an empty history).
Min(a, b) == IF a < b THEN a ELSE b

LastOf(q, n) == [i \in 1..n |-> q[Len(q) - n + i]]

TruncMean(q) ==
  IF Len(q) = 0 THEN 0
  ELSE CHOOSE m \in 0..100 : m * Len(q) <= Sum(q) /\ Sum(q) < (m + 1) * Len(q)

C3_WindowAverage ==
  LET s == BACKEND_SERVERS[1]
      kept == LastOf(fed, Min(Len(fed), WINDOW_SECONDS))
  IN /\ loss_history[s] = kept
     /\ avg[s] = TruncMean(kept)

\* More samples than the window holds were fed, the evicted one differs
\* from the retained ones, and the mean is not a whole number.
C3_Witness ==
  LET s == BACKEND_SERVERS[1]
  IN /\ Len(fed) > WINDOW_SECONDS + 1
     /\ fed[1] # fed[Len(fed)]
     /\ fed[Len(fed) - WINDOW_SECONDS] # fed[Len(fed)]
     /\ Sum(loss_history[s]) % Len(loss_history[s]) # 0
     /\ avg[s] = LOSS_THRESHOLD - 1

\* C4: no history is ever longer than WINDOW_SECONDS, and the sample of a
\* cycle is appended before anything is evicted: it is the last element of
\* the history after the cycle, behind the samples that were retained.
C4_Bounded == \A s \in Servers : Len(loss_history[s]) <= WINDOW_SECONDS

C4_Step ==
  pc = "record" =>
    LET s == BACKEND_SERVERS[idx]
        old == loss_history[s]
        new == loss_history'[s]
    IN /\ Len(new) >= 1
       /\ new[Len(new)] = loss
       /\ Len(old) < WINDOW_SECONDS => new = Append(old, loss)
       /\ Len(old) >= WINDOW_SECONDS => new = Append(Tail(old), loss)

C4_BoundedAndRecorded == [](C4_Bounded) /\ [][C4_Step]_vars

\* A full window from which the healthy sample that once made the average
\* fall under the threshold has been evicted.
C4_Witness ==
  \E s \in Servers :
    /\ below[s]
    /\ Len(loss_history[s]) = WINDOW_SECONDS
    /\ \A i \in 1..WINDOW_SECONDS : loss_history[s][i] >= LOSS_THRESHOLD

\* C5: every backend starts UNKNOWN, a status that is UP or DOWN never
\* becomes UNKNOWN again, and a backend that has completed a cycle is not
\* UNKNOWN.
C5_Start == \A s \in Servers : server_status[s] = "UNKNOWN"

C5_Left == \A s \in Servers : Cycled(s) => server_status[s] \in {"UP", "DOWN"}

C5_Step ==
  \A s \in Servers : server_status[s] # "UNKNOWN" => server_status'[s] # "UNKNOWN"

C5_UnknownOnlyAtStart == C5_Start /\ [](C5_Left) /\ [][C5_Step]_vars

\* Both backends have gone through a crossing in each direction.
C5_Witness ==
  /\ pc = "sleep"
  /\ \A s \in Servers : {"remove", "add"} \subseteq issued[s]
  /\ server_status[BACKEND_SERVERS[1]] = "UP"
  /\ server_status[BACKEND_SERVERS[2]] = "DOWN"

\* The entries of a command log q for one operation on one service.
Entries(q, op, p, ip) ==
  {i \in 1..Len(q) : q[i].op = op /\ q[i].proto = p[1] /\ q[i].port = p[2] /\ q[i].ip = ip}

OpsOf(q) == {q[i].op : i \in 1..Len(q)}

\* C6: a cycle runs commands only when it changes the status: a change to
\* UP runs one ensure step and one add per configured service (at most one
\* create each) and no remove, a change to DOWN runs one remove per service
\* and nothing else, and a cycle that keeps the status runs no command.
C6_Step ==
  pc = "record" =>
    LET s == BACKEND_SERVERS[idx]
        q == calls'
    IN /\ server_status'[s] = server_status[s] => q = <<>>
       /\ (server_status'[s] # server_status[s] /\ server_status'[s] = "UP") =>
            /\ \A p \in Pairs :
                 /\ Cardinality(Entries(q, "ensure", p, "-")) = 1
                 /\ Cardinality(Entries(q, "add", p, s)) = 1
                 /\ Cardinality(Entries(q, "create", p, "-")) <= 1
                 /\ Cardinality(Entries(q, "check", p, "-")) <= 1
            /\ "remove" \notin OpsOf(q)
            /\ Cardinality({i \in 1..Len(q) : q[i].op = "add"}) = Cardinality(Pairs)
       /\ (server_status'[s] # server_status[s] /\ server_status'[s] = "DOWN") =>
            /\ \A p \in Pairs : Cardinality(Entries(q, "remove", p, s)) = 1
            /\ Len(q) = Cardinality(Pairs)

C6_CallsOnlyOnTransition == [][C6_Step]_vars

\* The second backend was healthy in every cycle since start: its first
\* cycle ran the add sequence, and its latest cycle, with a full window,
\* ran nothing.
C6_Witness ==
  LET s == BACKEND_SERVERS[2]
  IN /\ pc = "sleep"
     /\ calls = <<>>
     /\ Len(loss_history[s]) = WINDOW_SECONDS
     /\ \A i \in 1..WINDOW_SECONDS : loss_history[s][i] < LOSS_THRESHOLD
     /\ server_status[s] = "UP"
     /\ issued[s] = {"check", "create", "add"}

\* C7: a backend whose average has been at or above LOSS_THRESHOLD in every
\* cycle since start is DOWN once it has completed a cycle, and no add and
\* no create command has ever been run for it.
C7_NoBootstrapAdd ==
  \A s \in Servers :
    ~below[s] =>
      /\ "add" \notin issued[s]
      /\ "create" \notin issued[s]
      /\ Cycled(s) => server_status[s] = "DOWN"

\* Loss at the threshold in every cycle of a full window: DOWN, and only
\* removes run.
C7_Witness ==
  \E s \in Servers :
    /\ ~below[s]
    /\ Len(loss_history[s]) = WINDOW_SECONDS
    /\ \A i \in 1..WINDOW_SECONDS : loss_history[s][i] >= LOSS_THRESHOLD
    /\ server_status[s] = "DOWN"
    /\ issued[s] = {"remove"}

\* C8: every add command of a cycle comes after the return of
\* create_service_if_needed for the same protocol and port in that cycle.
C8_EnsureBeforeAdd ==
  \A i \in 1..Len(calls) :
    calls[i].op = "add" =>
      \E j \in 1..(i - 1) :
        /\ calls[j].op = "ensure"
        /\ calls[j].proto = calls[i].proto
        /\ calls[j].port = calls[i].port

\* A service was found absent, created, and the backend then added to it.
C8_Witness ==
  \E i \in 1..Len(calls) :
    /\ i >= 4
    /\ calls[i].op = "add" /\ calls[i].ok
    /\ calls[i - 1].op = "ensure"
    /\ calls[i - 2].op = "create" /\ calls[i - 2].ok
    /\ calls[i - 3].op = "check" /\ ~calls[i - 3].ok

\* C9: with commands that fail only when the table rejects them, running
\* add_server_to_lvs twice in a row for a backend leaves created_services
\* and the table as the first run left them, and the second run issues no
\* create.
Twice(s) ==
  LET st0 == [lvs |-> lvs, created |-> created_services, calls |-> <<>>]
      st1 == add_server_to_lvs(s, st0, {})
      st2 == add_server_to_lvs(s, [st1 EXCEPT !.calls = <<>>], {})
  IN [first |-> st1, second |-> st2]

C9_AddIdempotent ==
  \A s \in Servers :
    LET r == Twice(s)
    IN /\ r.second.lvs = r.first.lvs
       /\ r.second.created = r.first.created
       /\ "create" \notin OpsOf(r.second.calls)
       /\ \A p \in Pairs : Cardinality(Entries(r.second.calls, "add", p, s)) = 1

\* A backend not yet added, with a service still to create: the first run
\* creates it and adds the backend, the second has every add rejected.
C9_Witness ==
  \E s \in Servers :
    LET r == Twice(s)
    IN /\ server_status[s] = "DOWN"
       /\ \E i \in 1..Len(r.first.calls) : r.first.calls[i].op = "create" /\ r.first.calls[i].ok
       /\ \A i \in 1..Len(r.first.calls) : r.first.calls[i].op = "add" => r.first.calls[i].ok
       /\ \A i \in 1..Len(r.second.calls) : r.second.calls[i].op = "add" => ~r.second.calls[i].ok
       /\ r.first.lvs # lvs

\* C10: a cycle that changes the status to DOWN runs a remove command for
\* every configured service, TCP and UDP, whether or not earlier ones of
\* the cycle failed, also when the status was UNKNOWN.
C10_Step ==
  pc = "record" =>
    LET s == BACKEND_SERVERS[idx]
    IN (server_status'[s] = "DOWN" /\ server_status[s] # "DOWN") =>
         \A p \in Pairs : Entries(calls', "remove", p, s) # {}

C10_RemoveEveryPair == [][C10_Step]_vars

\* The first cycle of a backend that was never added: the first remove
\* failed and the remaining one was run all the same.
C10_Witness ==
  \E s \in Servers :
    /\ server_status[s] = "DOWN"
    /\ issued[s] = {"remove"}
    /\ Len(loss_history[s]) = 1
    /\ Len(calls) = Cardinality(Pairs)
    /\ \A i \in 1..Len(calls) : calls[i].op = "remove" /\ calls[i].ip = s
    /\ ~calls[1].ok
    /\ {calls[i].proto : i \in 1..Len(calls)} = {"TCP", "UDP"}

\* The commands of a log that did not succeed.
Failed(q) == {i \in 1..Len(q) : q[i].op \in {"create", "add", "remove"} /\ ~q[i].ok}

\* The status of a backend and its membership disagree.
Mismatch(s) ==
  \/ server_status[s] = "UP" /\ \E p \in Pairs : ~Registered(s, p)
  \/ server_status[s] = "DOWN" /\ \E p \in Pairs : <<p[1], p[2], s>> \in lvs.rs

\* C11: a cycle in which a command fails still stores the new status, runs
\* no command twice and goes on to the next step of the loop; while the
\* status then disagrees with the table, a cycle that keeps the status runs
\* no command and leaves the table alone; after a cycle with a failed
\* command the loop can take its next step.
C11_Step ==
  pc = "record" =>
    LET s == BACKEND_SERVERS[idx]
        q == calls'
    IN /\ Failed(q) # {} =>
            /\ server_status'[s] # server_status[s]
            /\ server_status'[s] = (IF "remove" \in OpsOf(q) THEN "DOWN" ELSE "UP")
            /\ \A i, j \in 1..Len(q) : i # j => q[i] # q[j]
            /\ \A p \in Pairs : Cardinality(Entries(q, "add", p, s))
                                + Cardinality(Entries(q, "remove", p, s)) = 1
            /\ pc' \in {"ping", "sleep"}
       /\ (Mismatch(s) /\ server_status'[s] = server_status[s]) =>
            q = <<>> /\ lvs' = lvs

C11_Running == Failed(calls) # {} => ENABLED Next

C11_FailureCommitsNoRetry == [](C11_Running) /\ [][C11_Step]_vars

\* A command failed for an external reason, the second backend is UP
\* without being a real server of every service, and its latest cycle,
\* with a full window, ran nothing.
C11_Witness ==
  LET s == BACKEND_SERVERS[2]
  IN /\ faults > 0
     /\ pc = "sleep"
     /\ calls = <<>>
     /\ server_status[s] = "UP"
     /\ \E p \in Pairs : ~Registered(s, p)
     /\ Len(loss_history[s]) = WINDOW_SECONDS

\* C12: a create command is run only for a key that is not in
\* created_services and right after the check reported the service absent,
\* and the key is in created_services afterwards; so over the whole run
\* every key has had at most one create, and exactly the keys that had one
\* are in created_services.
C12_Step ==
  pc = "record" =>
    LET q == calls'
    IN \A i \in 1..Len(q) :
         q[i].op = "create" =>
           LET key == <<q[i].proto, q[i].port>>
           IN /\ key \notin created_services
              /\ key \in created_services'
              /\ i > 1
              /\ q[i - 1].op = "check" /\ ~q[i - 1].ok
              /\ <<q[i - 1].proto, q[i - 1].port>> = key

C12_Once ==
  \A p \in Pairs :
    /\ creates[p] <= 1
    /\ (p \in created_services) <=> (creates[p] = 1)

C12_CreateOncePerKey == [](C12_Once) /\ [][C12_Step]_vars

\* Both backends have been added; the first one created every service and
\* the second one found every key and ran neither check nor create.
C12_Witness ==
  /\ created_services = Pairs
  /\ \A p \in Pairs : creates[p] = 1
  /\ "create" \in issued[BACKEND_SERVERS[1]]
  /\ {"add", "remove"} \subseteq issued[BACKEND_SERVERS[1]]
  /\ server_status[BACKEND_SERVERS[1]] = "UP"
  /\ issued[BACKEND_SERVERS[2]] = {"add"}

\* A step in which the cycle of backend t gets on: its probe returns or its
\* history, average or status is written.
Advances(t) ==
  \/ pc = "ping" /\ BACKEND_SERVERS[idx] = t /\ pc' = "record"
  \/ loss_history'[t] # loss_history[t]
  \/ avg'[t] # avg[t]
  \/ server_status'[t] # server_status[t]

C13_Step ==
  /\ \A t \in Servers :
       Advances(t) => pc \in {"ping", "record"} /\ t = BACKEND_SERVERS[idx]
  /\ pc = "ping" => pc' = "record" /\ idx' = idx
  /\ pc = "record" =>
       IF idx < Len(BACKEND_SERVERS)
       THEN pc' = "ping" /\ idx' = idx + 1
       ELSE pc' = "sleep"
  /\ pc = "sleep" => pc' = "ping" /\ idx' = 1

C14_Fresh ==
  \A t \in Servers :
    /\ avg[t] = TruncMean(loss_history[t])
    /\ Cycled(t) => ((server_status[t] = "DOWN") <=> (TruncMean(loss_history[t]) >= LOSS_THRESHOLD))
    /\ Cycled(t) => ((server_status[t] = "UP") <=> (TruncMean(loss_history[t]) < LOSS_THRESHOLD))

C14_Step ==
  /\ pc = "ping" =>
       UNCHANGED <<loss_history, avg, server_status, created_services, lvs>>
  /\ (lvs' # lvs \/ created_services' # created_services
        \/ (calls' # calls /\ calls' # <<>>)) =>
       /\ pc = "record"
       /\ server_status'[BACKEND_SERVERS[idx]] # server_status[BACKEND_SERVERS[idx]]
       /\ \A i \in 1..Len(calls') : calls'[i].ip \in {"-", BACKEND_SERVERS[idx]}
  /\ \A t \in Servers :
       loss_history'[t] # loss_history[t] =>
         /\ avg'[t] = TruncMean(loss_history'[t])
         /\ \A u \in Servers \ {t} :
              loss_history'[u] = loss_history[u] /\ server_status'[u] = server_status[u]

C14_RegionAtomic == [](C14_Fresh) /\ [][C14_Step]_vars

\* A backend that was healthy has its window filled with losses at the
\* threshold: the cycle that appended the last of them also made it DOWN
\* and ran its removes.
C14_Witness ==
  \E t \in Servers :
    /\ below[t]
    /\ Len(loss_history[t]) = WINDOW_SECONDS
    /\ \A i \in 1..WINDOW_SECONDS : loss_history[t][i] = LOSS_THRESHOLD
    /\ server_status[t] = "DOWN"
    /\ calls # <<>>
    /\ \A i \in 1..Len(calls) : calls[i].op = "remove" /\ calls[i].ip = t

\* The samples of backend t that its cycles have recorded so far.
Recorded(t) ==
  IF pc = "record" /\ BACKEND_SERVERS[idx] = t
  THEN SubSeq(sampled[t], 1, Len(sampled[t]) - 1)
  ELSE sampled[t]

\* The history a run for one backend alone builds from its samples.
RECURSIVE RefHistory(_)
RefHistory(q) ==
  IF q = <<>> THEN <<>>
  ELSE LET h == RefHistory(SubSeq(q, 1, Len(q) - 1))
           pushed == Append(h, q[Len(q)])
       IN IF Len(pushed) > WINDOW_SECONDS THEN Tail(pushed) ELSE pushed

\* C15: with the backends served in turn and whatever time each takes, the
\* history and average of every backend are those of a run that feeds that
\* backend alone the values ping_server returned for it: no sample is lost
\* and none lands in another backend's history.
C15_MatchesReference ==
  \A t \in Servers :
    /\ loss_history[t] = RefHistory(Recorded(t))
    /\ Len(loss_history[t]) = Min(Len(Recorded(t)), WINDOW_SECONDS)
    /\ avg[t] = TruncMean(RefHistory(Recorded(t)))

\* Both backends have had more samples than the window holds, different
\* ones, and their cycles took different times.
C15_Witness ==
  /\ \A t \in Servers : Len(Recorded(t)) > WINDOW_SECONDS
  /\ sampled[BACKEND_SERVERS[1]] # sampled[BACKEND_SERVERS[2]]
  /\ loss_history[BACKEND_SERVERS[1]] # loss_history[BACKEND_SERVERS[2]]
  /\ work[BACKEND_SERVERS[1]] # work[BACKEND_SERVERS[2]]
  /\ pc = "sleep"

\* C18 as claimed: the sleep of a pass is the remainder of the second after
\* the cycle of each backend: 1000 ms less the time that cycle took when it
\* took less, and none when it took as long or longer.
C18_PerTargetStep ==
  pc = "sleep" =>
    \A t \in Servers :
      slept' = (IF work[t] < TICK_MS THEN TICK_MS - work[t] ELSE 0)

RECURSIVE PassTime(_)
PassTime(i) == IF i = 0 THEN 0 ELSE work[BACKEND_SERVERS[i]] + PassTime(i - 1)

C18_Measured ==
  /\ pc = "sleep" => elapsed = PassTime(Len(BACKEND_SERVERS))
  /\ pc = "record" => elapsed = PassTime(idx)
  /\ (pc = "ping" /\ idx = 1) => elapsed = 0

C18_Step ==
  pc = "sleep" =>
    /\ elapsed < TICK_MS => slept' = TICK_MS - elapsed /\ slept' > 0
    /\ elapsed >= TICK_MS => slept' = 0
    /\ elapsed' = 0

C18_WitnessNoSleep ==
  /\ pc = "ping" /\ idx = 1
  /\ slept = 0
  /\ PassTime(Len(BACKEND_SERVERS)) = TICK_MS
  /\ \A t \in Servers : work[t] < TICK_MS

\* The last n samples of q.
LastSamples(q, n) == SubSeq(q, Len(q) - n + 1, Len(q))

\* C19: once the last WINDOW_SECONDS recorded samples of a backend are all
\* below LOSS_THRESHOLD its status is UP, whatever came before them, and
\* once they are all at or above it the status is DOWN; this holds after
\* every further cycle for as long as such samples go on.
C19_Converged ==
  \A t \in Servers :
    LET q == Recorded(t)
    IN Len(q) >= WINDOW_SECONDS =>
         LET w == LastSamples(q, WINDOW_SECONDS)
         IN /\ (\A i \in 1..WINDOW_SECONDS : w[i] < LOSS_THRESHOLD) =>
                 server_status[t] = "UP"
            /\ (\A i \in 1..WINDOW_SECONDS : w[i] >= LOSS_THRESHOLD) =>
                 server_status[t] = "DOWN"

\* One backend began at the threshold, was DOWN, and is UP after a window
\* of healthy samples; the other began healthy and is DOWN after a window
\* of samples at the threshold.
C19_Witness ==
  \E t, u \in Servers :
    /\ Len(Recorded(t)) > WINDOW_SECONDS
    /\ Recorded(t)[1] >= LOSS_THRESHOLD
    /\ \A i \in 2..Len(Recorded(t)) : Recorded(t)[i] < LOSS_THRESHOLD
    /\ "remove" \in issued[t]
    /\ server_status[t] = "UP"
    /\ Len(Recorded(u)) > WINDOW_SECONDS
    /\ Recorded(u)[1] < LOSS_THRESHOLD
    /\ \A i \in 2..Len(Recorded(u)) : Recorded(u)[i] >= LOSS_THRESHOLD
    /\ "add" \in issued[u]
    /\ server_status[u] = "DOWN"

\* C20: the reconciliations of a backend alternate: a cycle that runs adds
\* for it follows either no reconciliation of it or a remove batch, a cycle
\* that runs removes follows either none or an add batch, and no cycle
\* runs both.
C20_Step ==
  pc = "record" =>
    LET s == BACKEND_SERVERS[idx]
        ops == OpsOf(calls')
    IN /\ "add" \in ops => last_batch[s] # "add" /\ last_batch'[s] = "add"
       /\ "remove" \in ops => last_batch[s] # "remove" /\ last_batch'[s] = "remove"
       /\ ~("add" \in ops /\ "remove" \in ops)
       /\ ops = {} => last_batch'[s] = last_batch[s]
       /\ \A t \in Servers \ {s} : last_batch'[t] = last_batch[t]

C20_BatchesAlternate == [][C20_Step]_vars

\* A backend removed earlier has just been added by a full batch.
C20_Witness ==
  \E s \in Servers :
    /\ last_batch[s] = "add"
    /\ "remove" \in issued[s]
    /\ server_status[s] = "UP"
    /\ Len(loss_history[s]) = WINDOW_SECONDS
    /\ loss_history[s][1] >= LOSS_THRESHOLD
    /\ below[s]
    /\ \A p \in Pairs : Cardinality(Entries(calls, "add", p, s)) = 1

\* ---------------------------------------------------------
\* The service of pair p is absent from the table when
\* create_service_if_needed runs for p in the cycle about to be taken: only
\* that call changes the entry of p.
AbsentAtEnsure(p) == p \notin lvs.svc

\* The cycle runs create_service_if_needed for pair p.
Ensures(p) == Entries(calls', "ensure", p, "-") # {}

\* A call for a service that is absent from the table although
\* created_services holds its key creates it.
C17_AbsentIsCreated ==
  pc = "record" =>
    \A p \in Pairs :
      (Ensures(p) /\ AbsentAtEnsure(p)) => Entries(calls', "create", p, "-") # {}

\* A call for a service that is in the table, with the key missing from
\* created_services and the listing run without an outside failure, runs no
\* create.
C17_PresentNotCreated ==
  pc = "record" =>
    \A p \in Pairs :
      (Ensures(p) /\ ~AbsentAtEnsure(p) /\ p \notin created_services /\ faults' = faults)
        => Entries(calls', "create", p, "-") = {}

\* C17: create_service_if_needed checks the table in both directions:
\* called while the service is absent from the table it runs a create even
\* if created_services holds the key, called while the service is present
\* and the key is missing it runs no create, and in both cases the loop
\* goes on to its next step.
C17_Step ==
  /\ C17_AbsentIsCreated
  /\ C17_PresentNotCreated
  /\ pc = "record" => pc' \in {"ping", "sleep"}

C17_RecheckBothWays == [][C17_Step]_vars

\* The half of C17 the code keeps: no duplicate create for a listed service
\* whose key is missing, and the loop goes on.
C17_KeptHalf ==
  [][C17_PresentNotCreated /\ (pc = "record" => pc' \in {"ping", "sleep"})]_vars

\* A service is absent from the table while created_services holds its key
\* and a backend is UP: its add batch ran without a check or create for it.
C17_Desynced ==
  \E p \in Pairs, s \in Servers :
    /\ p \in created_services
    /\ p \notin lvs.svc
    /\ server_status[s] = "UP"
    /\ issued[s] = {"add"}

\* ---------------------------------------------------------
\* o[a..b] digits, an optional "." and digits up to c, "%" at c + 1,
\* white space, and "packet loss" at d.
IsFigure(o, a, b, c, d) ==
  /\ a <= b /\ b <= c /\ c < d /\ d <= Len(o)
  /\ \A j \in a..b : o[j] \in Digits
  /\ \/ c = b
     \/ /\ c >= b + 2
        /\ o[b + 1] = "."
        /\ \A j \in (b + 2)..c : o[j] \in Digits
  /\ o[c + 1] = "%"
  /\ \A j \in (c + 2)..(d - 1) : o[j] = " "
  /\ o[d] = "L"

\* The loss figures of an output, as <<a, b>>: where the whole part is.
Figures(o) ==
  {f \in (1..Len(o)) \X (1..Len(o)) :
     \E c \in f[2]..Len(o) : \E d \in (c + 1)..Len(o) :
       IsFigure(o, f[1], f[2], c, d)}

\* The value of the digits o[a..b].
Whole(o, a, b) ==
  Sum([j \in 1..(b - a + 1) |-> DigitVal(o[a + j - 1]) * (10 ^ (b - a + 1 - j))])

\* C16: ping_server always returns a loss value and never a separate
\* error: 100 when popen fails or the output holds no loss figure, and
\* otherwise the whole part of the first figure of the output.
C16_SentinelOrTruncated ==
  pc = "record" =>
    LET figs == Figures(reply.output)
    IN /\ loss \in Nat
       /\ (~reply.pipe \/ figs = {}) => loss = 100
       /\ (reply.pipe /\ figs # {}) =>
            \* the figure that starts first
            LET f == CHOOSE g \in figs : \A h \in figs : g[1] <= h[1]
            IN loss = Whole(reply.output, f[1], f[2])

\* The output "1.9% packet loss" was cut to 1.
C16_Witness ==
  /\ pc = "record"
  /\ reply = [pipe |-> TRUE, output |-> <<"1", ".", "9", "%", "L">>]
  /\ loss = 1

\* popen failed and 100 was returned.
C16_WitnessNoPipe == pc = "record" /\ ~reply.pipe /\ loss = 100

\* An output with "%" and "packet loss" but no digits before them gave 100.
C16_WitnessNoFigure ==
  /\ pc = "record"
  /\ reply = [pipe |-> TRUE, output |-> <<"x", "%", " ", "L">>]
  /\ loss = 100

\* The output "100% packet loss" gave 100 as well.
C16_WitnessFullLoss ==
  /\ pc = "record"
  /\ reply = [pipe |-> TRUE, output |-> <<"1", "0", "0", "%", "L">>]
  /\ loss = 100

====
